---- MODULE Spec2Model ----
(***************************************************************************)
(* Audio recording worker (src/audio_worker.py): the Recorder session, the *)
(* capture callback that the audio driver runs on its own thread, and the  *)
(* line-oriented control loop of main().                                   *)
(*                                                                         *)
(* The control thread is modelled statement group by statement group (pc   *)
(* names carry the source line of the next statement), the callback in the *)
(* three steps in which it touches shared state: the read of _recording,   *)
(* the read of the _chunks reference, and the append to that list.  Python *)
(* lists are objects: heap maps a list identity to its content and         *)
(* _chunks, the local `chunks` of stop and the callback's loaded reference *)
(* are identities.                                                         *)
(***************************************************************************)
EXTENDS Integers, Sequences, FiniteSets, TLC

\* Bounds of the model.
MaxLines == 3      \* input lines read from stdin
MaxStreams == 2    \* InputStream objects the driver opens successfully
MaxBlocks == 2     \* blocks held at a time by the lists and running callbacks

\* Python None for the stream handle, list references, sample rate, channels.
None == 0
DefaultSampleRate == 16000
DefaultChannels == 1

StreamIds == 1..MaxStreams
ListIds == 1..(MaxStreams + 2)
BlockFrames == {1, 2}          \* frame counts of a delivered block

------------------------------------------------------------------------------
\* JSON values as json.loads returns them, and the Python operations on them.

JNull == [k |-> "null", s |-> "", n |-> 0]
JStr(x) == [k |-> "str", s |-> x, n |-> 0]
JNum(i) == [k |-> "num", s |-> "", n |-> i]

\* bool(v): None, "" and 0 are falsy.
Truthy(v) == /\ v.k # "null"
             /\ (v.k = "str" => v.s # "")
             /\ (v.k = "num" => v.n # 0)

\* message.get(key): None when the key is absent.
Get(m, key) == IF key \in DOMAIN m THEN m[key] ELSE JNull

\* v or d
PyOr(v, d) == IF Truthy(v) THEN v ELSE d

\* int(v) succeeds on a number; the strings of the model are not numerals.
IntOk(v) == v.k = "num"
PyInt(v) == v.n

\* str(v) of a JSON string.
PyStr(v) == v.s

------------------------------------------------------------------------------
\* Input lines.  A line is blank, not JSON, JSON that is not an object, or a
\* JSON object (msg: its keys and values).

Ids == {JStr("1"), JStr("9")}
NoKeys == [x \in {} |-> JNull]
Field(key, vals) == {NoKeys} \cup {key :> v : v \in vals}

StartMsgs == {("type" :> JStr("start")) @@ i @@ a :
                 i \in Field("id", Ids),
                 a \in {NoKeys,
                        ("sample_rate" :> JNum(8000)) @@ ("channels" :> JNum(2)),
                        "sample_rate" :> JStr("abc")}}
StopMsgs == {("type" :> JStr("stop")) @@ i @@ w :
                 i \in Field("id", Ids),
                 w \in Field("wav_path", {JStr(""), JStr("x.wav"), JStr("/nodir/z.wav")})}
OtherMsgs == {("type" :> JStr(t)) @@ i :
                 t \in {"cancel", "shutdown", "bogus"}, i \in Field("id", Ids)}
Msgs == StartMsgs \cup StopMsgs \cup OtherMsgs \cup Field("id", Ids)

Lines == {[kind |-> "dict", msg |-> m] : m \in Msgs}
         \cup {[kind |-> k, msg |-> NoKeys] : k \in {"blank", "nonjson", "nondict"}}

\* wavfile.write raises OSError when the directory of the path does not exist.
Writable(path) == path # "/nodir/z.wav"

------------------------------------------------------------------------------
VARIABLES
    \* Recorder fields
    recording, stream, chunks, sample_rate, channels,
    heap,          \* list identity -> sequence of blocks
    \* driver
    streams,       \* stream id -> "none" | "open" | "active" | "aborted" | "closed"
    cbpc, cbblk, cbref,
    \* control thread: position, the line being handled, the local `stream`
    \* and `chunks` of stop/cancel, the number of lines read, the lines
    \* written to stdout since the last line was read (the parent takes the
    \* responses from the pipe before it sends its next request), and the
    \* exit code (-1 while the process runs)
    pc, line, lstream, lchunks, nread, stdout, exitcode,
    \* observation of the run (not program state)
    writes,        \* the wavfile.write calls that returned for the current line
    pre,           \* Recorder fields when the current line was read
    touched,       \* a callback was running then, or has run since
    tdraised,      \* abort() or close() raised while the current line was handled
    discarded,     \* frames buffered when cancel ended a session, -1 once a
                   \* start line is read
    delivered,     \* frames handed to the callback since the last started response
    clean          \* no callback ran during a request since (and at) that response

session == <<recording, stream, chunks, sample_rate, channels>>
driver == <<streams, cbpc, cbblk, cbref>>
control == <<pc, line, lstream, lchunks, nread, stdout, exitcode>>
ghost == <<writes, pre, touched, tdraised, discarded, delivered, clean>>

\* InputStream objects constructed so far.
nopen == Cardinality({s \in StreamIds : streams[s] # "none"})
vars == <<session, heap, driver, control, ghost>>

msg_type == Get(line.msg, "type")
req_id == Get(line.msg, "id")

------------------------------------------------------------------------------
\* The list heap.

Refs(c, l, r) == ({c, l} \cup {r[s] : s \in StreamIds}) \ {None}

\* A list object nobody references any more is collected.
Gc(h, live) == [i \in ListIds |-> IF i \in live THEN h[i] ELSE <<>>]

\* The identity of a newly created list.
NewList(live) == CHOOSE i \in ListIds \ live : \A j \in ListIds \ live : i <= j

\* Mutant of SumFrames: the number of blocks instead of the number of frames.
SumBlocks(c) == Len(c)

RECURSIVE SumFrames(_)
\* int(np.concatenate(chunks, axis=0).shape[0])
SumFrames(c) == IF c = <<>> THEN 0 ELSE Head(c).frames + SumFrames(Tail(c))

InFlight == \E s \in StreamIds : cbpc[s] # "idle"

Snapshot == [recording |-> recording, stream |-> stream, chunks |-> chunks,
             buf |-> heap[chunks], sample_rate |-> sample_rate,
             channels |-> channels]

------------------------------------------------------------------------------
\* Responses written by _write_json.

StartedResp(id) == [type |-> JStr("started"), id |-> id]

\* Mutant of StoppedResp: the id key is left out when the request had none.
StoppedRespOmitsNullId(id, wav_path, frames) ==
    IF id = JNull
    THEN [type |-> JStr("stopped"), wav_path |-> wav_path, frames |-> JNum(frames)]
    ELSE [type |-> JStr("stopped"), id |-> id, wav_path |-> wav_path,
          frames |-> JNum(frames)]

StoppedResp(id, wav_path, frames) ==
    [type |-> JStr("stopped"), id |-> id, wav_path |-> wav_path, frames |-> JNum(frames)]

CanceledResp(id) == [type |-> JStr("canceled"), id |-> id]

ShutdownAck == [type |-> JStr("shutdown_ack")]

\* Mutant of ErrorResp: the error response forgets the request's id.
ErrorRespNoId(id, e) == [type |-> JStr("error"), id |-> JNull, error |-> JStr(e)]

ErrorResp(id, e) == [type |-> JStr("error"), id |-> id, error |-> JStr(e)]

Init ==
    /\ recording = FALSE /\ stream = None /\ chunks = 1
    /\ sample_rate = None /\ channels = None
    /\ heap = [i \in ListIds |-> <<>>]
    /\ streams = [s \in StreamIds |-> "none"]
    /\ cbpc = [s \in StreamIds |-> "idle"]
    /\ cbblk = [s \in StreamIds |-> 0]
    /\ cbref = [s \in StreamIds |-> None]
    /\ pc = "read" /\ line = [kind |-> "blank", msg |-> NoKeys]
    /\ lstream = None /\ lchunks = None /\ nread = 0
    /\ stdout = <<[type |-> JStr("ready")]>>
    /\ writes = <<>>
    /\ exitcode = -1
    /\ pre = [recording |-> FALSE, stream |-> None, chunks |-> 1, buf |-> <<>>,
              sample_rate |-> None, channels |-> None]
    /\ touched = FALSE /\ tdraised = FALSE /\ discarded = -1
    /\ delivered = 0 /\ clean = FALSE

------------------------------------------------------------------------------
\* main(): one line of stdin.

\* Lines 124-155 up to the first Recorder call: where the control thread goes
\* for message m and what it has written by then.  int() of the start
\* arguments and the wav_path test raise inside the try block, so they end in
\* the error response of line 158.
\* Mutant of Unknown: an unrecognized type is answered with an error response.
UnknownAnswered(id) ==
    [pc |-> "read", out |-> <<ErrorResp(id, "Unknown message type")>>]

\* Line 155: an unrecognized type is logged and the loop goes on.
Unknown(id) == [pc |-> "read", out |-> <<>>]

Dispatch(m) ==
    LET t == Get(m, "type")
        id == Get(m, "id")
    IN CASE t = JStr("shutdown") -> [pc |-> "cancel_93", out |-> <<>>]
         [] t = JStr("start") ->
              IF /\ IntOk(PyOr(Get(m, "sample_rate"), JNum(DefaultSampleRate)))
                 /\ IntOk(PyOr(Get(m, "channels"), JNum(DefaultChannels)))
              THEN [pc |-> "start_35", out |-> <<>>]
              ELSE [pc |-> "read",
                    out |-> <<ErrorResp(id, "invalid literal for int()")>>]
         [] t = JStr("stop") ->
              IF Truthy(Get(m, "wav_path"))
              THEN [pc |-> "stop_63", out |-> <<>>]
              ELSE [pc |-> "read", out |-> <<ErrorResp(id, "Missing wav_path")>>]
         [] t = JStr("cancel") -> [pc |-> "cancel_93", out |-> <<>>]
         [] OTHER -> Unknown(id)

\* The arguments main passes to recorder.start (lines 136-137).
ArgSampleRate == PyInt(PyOr(Get(line.msg, "sample_rate"), JNum(DefaultSampleRate)))
ArgChannels == PyInt(PyOr(Get(line.msg, "channels"), JNum(DefaultChannels)))

\* The process ends with exit code c: its threads and its memory are gone, and
\* the streams it held with them.  What it wrote stays.
Exit(c) ==
    /\ pc' = "exited" /\ exitcode' = c
    /\ recording' = FALSE /\ stream' = None /\ chunks' = 1
    /\ sample_rate' = None /\ channels' = None
    /\ heap' = [i \in ListIds |-> <<>>]
    /\ streams' = [s \in StreamIds |-> IF streams[s] = "none" THEN "none" ELSE "closed"]
    /\ cbpc' = [s \in StreamIds |-> "idle"]
    /\ cbblk' = [s \in StreamIds |-> 0]
    /\ cbref' = [s \in StreamIds |-> None]
    /\ lstream' = None /\ lchunks' = None
    /\ delivered' = 0 /\ clean' = FALSE /\ discarded' = -1

\* Mutant of Skip: a line that is not JSON is answered with an error response.
SkipAnswered == [pc |-> "read", out |-> <<ErrorResp(JNull, "Invalid JSON")>>]

\* Lines 114-122: a blank line, or a line json.loads rejects (logged to
\* stderr), is passed over with `continue`.
Skip == [pc |-> "read", out |-> <<>>]

\* Lines 113-126: `for line in sys.stdin`, strip, json.loads, message.get.
\* message.get on a JSON value that is no object raises AttributeError outside
\* the try block: the process ends with a traceback and exit code 1.
ReadLine ==
    /\ pc = "read" /\ nread < MaxLines
    /\ \E l \in Lines :
         /\ line' = l
         /\ nread' = nread + 1
         /\ pre' = Snapshot /\ touched' = InFlight /\ writes' = <<>>
         /\ tdraised' = FALSE
         /\ IF l.kind = "nondict"
            THEN /\ stdout' = <<>>
                 /\ Exit(1)
            ELSE /\ pc' = IF l.kind = "dict" THEN Dispatch(l.msg).pc ELSE Skip.pc
                 /\ stdout' = IF l.kind = "dict" THEN Dispatch(l.msg).out ELSE Skip.out
                 /\ clean' = (clean /\ ~InFlight /\ stream # None)
                 /\ delivered' = IF stream # None THEN delivered ELSE 0
                 /\ discarded' = IF Get(l.msg, "type") = JStr("start")
                                 THEN -1 ELSE discarded
                 /\ UNCHANGED <<session, heap, driver, lstream, lchunks, exitcode>>

\* Line 160: stdin is at end of file.
EndOfInput ==
    /\ pc = "read"
    /\ Exit(0)
    /\ UNCHANGED <<line, nread, stdout, writes, pre, touched, tdraised>>

\* Lines 156-158: the except clause of main writes the error response and the
\* loop goes on to the next line.
Raise(e) ==
    /\ stdout' = Append(stdout, ErrorResp(req_id, e))
    /\ pc' = "read"

------------------------------------------------------------------------------
\* Recorder.start

\* Mutant of AlreadyRecording: start replaces a running session silently.
NeverRecording == FALSE

\* Line 35.
AlreadyRecording == recording

\* Lines 35-44: the already-recording test, then a new empty list, the
\* session parameters and the flag.
Start35 ==
    /\ pc = "start_35"
    /\ IF AlreadyRecording
       THEN /\ Raise("Already recording")
            /\ UNCHANGED <<session, heap>>
       ELSE /\ chunks' = NewList(Refs(None, lchunks, cbref))
            /\ heap' = Gc([heap EXCEPT ![chunks'] = <<>>], Refs(chunks', lchunks, cbref))
            /\ sample_rate' = ArgSampleRate
            /\ channels' = ArgChannels
            /\ recording' = TRUE
            /\ pc' = "start_52"
            /\ UNCHANGED <<stream, stdout>>
    /\ UNCHANGED <<driver, line, lstream, lchunks, nread, exitcode, ghost>>

\* Lines 52-58: sd.InputStream(...) returns an open stream or raises (it can
\* only raise once MaxStreams streams have been opened).
Start52 ==
    /\ pc = "start_52"
    /\ \/ /\ nopen < MaxStreams
          /\ streams' = [streams EXCEPT ![nopen + 1] = "open"]
          /\ lstream' = nopen + 1
          /\ pc' = "start_59"
          /\ UNCHANGED stdout
       \/ /\ Raise("Error opening InputStream")
          /\ UNCHANGED <<streams, lstream>>
    /\ UNCHANGED <<session, heap, cbpc, cbblk, cbref, line, lchunks, nread,
                   exitcode, ghost>>

\* Lines 59-60 and 139: stream.start() returns, the handle is stored and
\* started is written; or stream.start() raises and the local handle is lost.
Start59 ==
    /\ pc = "start_59"
    /\ \/ /\ streams' = [streams EXCEPT ![lstream] = "active"]
          /\ stream' = lstream
          /\ stdout' = Append(stdout, StartedResp(req_id))
          /\ pc' = "read"
          /\ delivered' = 0
          /\ clean' = (~InFlight /\ heap[chunks] = <<>>)
       \/ /\ Raise("Error starting stream")
          /\ UNCHANGED <<streams, stream, delivered, clean>>
    /\ lstream' = None
    /\ UNCHANGED <<recording, chunks, sample_rate, channels, heap, cbpc, cbblk,
                   cbref, line, lchunks, nread, exitcode, writes, pre, touched,
                   tdraised, discarded>>

------------------------------------------------------------------------------
\* The teardown shared by stop (lines 72-77) and cancel (lines 98-103).

\* Mutant of Except: the teardown error is not caught and reaches main.
ExceptReraise(donepc) == Raise("PortAudioError")

\* Lines 76-77 and 102-103: `except Exception` logs the traceback and the
\* method goes on after the try statement.
Except(donepc) ==
    /\ pc' = donepc
    /\ UNCHANGED stdout

\* stream.abort(): when it returns the stream no longer runs its callback (it
\* returns only once a running callback has returned); when it raises,
\* close() is skipped and the stream may still be live.
Abort(closepc, donepc) ==
    IF lstream = None
    THEN /\ pc' = donepc
         /\ UNCHANGED <<streams, stdout, tdraised>>
    ELSE \/ /\ cbpc[lstream] = "idle"
            /\ streams' = [streams EXCEPT ![lstream] = "aborted"]
            /\ pc' = closepc
            /\ UNCHANGED <<stdout, tdraised>>
         \/ /\ \E st \in {streams[lstream], "aborted"} :
                 streams' = [streams EXCEPT ![lstream] = st]
            /\ tdraised' = TRUE
            /\ Except(donepc)

\* stream.close(): returns, or raises.
Close(donepc) ==
    \/ /\ streams' = [streams EXCEPT ![lstream] = "closed"]
       /\ pc' = donepc
       /\ UNCHANGED <<stdout, tdraised>>
    \/ /\ tdraised' = TRUE
       /\ Except(donepc)
       /\ UNCHANGED streams

------------------------------------------------------------------------------
\* Recorder.stop

\* Mutant of NotRecording: stop has no early return.
NoEarlyReturn == FALSE

\* Line 63.
NotRecording == ~recording

\* Mutant of StopFlag: stop leaves the flag as it is.
StopFlagKept == recording

\* Line 66: the value stop gives _recording.
StopFlag == FALSE

\* Lines 63-68 and, when not recording, 147: return 0 and stopped with 0
\* frames; else the flag is cleared and the handle taken.
Stop63 ==
    /\ pc = "stop_63"
    /\ IF NotRecording
       THEN /\ stdout' = Append(stdout, StoppedResp(req_id, Get(line.msg, "wav_path"), 0))
            /\ pc' = "read"
            /\ UNCHANGED <<recording, stream, lstream>>
       ELSE /\ recording' = StopFlag
            /\ lstream' = stream
            /\ stream' = None
            /\ pc' = "stop_69"
            /\ UNCHANGED stdout
    /\ UNCHANGED <<chunks, sample_rate, channels, heap, driver, line, lchunks,
                   nread, exitcode, ghost>>

\* Lines 69-70: chunks = self._chunks; self._chunks = [].
Stop69 ==
    /\ pc = "stop_69"
    /\ lchunks' = chunks
    /\ chunks' = NewList(Refs(chunks, None, cbref))
    /\ heap' = Gc([heap EXCEPT ![chunks'] = <<>>], Refs(chunks', lchunks', cbref))
    /\ pc' = "stop_74"
    /\ UNCHANGED <<recording, stream, sample_rate, channels, driver, line, lstream,
                   nread, stdout, exitcode, ghost>>

\* Line 74.
Stop74 ==
    /\ pc = "stop_74"
    /\ Abort("stop_75", "stop_79")
    /\ UNCHANGED <<session, heap, cbpc, cbblk, cbref, line, lstream, lchunks,
                   nread, exitcode, writes, pre, touched, discarded, delivered,
                   clean>>

\* Line 75.
Stop75 ==
    /\ pc = "stop_75"
    /\ Close("stop_79")
    /\ UNCHANGED <<session, heap, cbpc, cbblk, cbref, line, lstream, lchunks,
                   nread, exitcode, writes, pre, touched, discarded, delivered,
                   clean>>

\* Mutant of WriteRate: the file is always written with the default rate.
WriteRateDefault == DefaultSampleRate

\* Line 89: the rate the file is written with.
WriteRate == IF sample_rate # None THEN sample_rate ELSE DefaultSampleRate

\* Lines 79-90 and 147: nothing recorded returns 0; else the blocks are
\* concatenated and written to wav_path, and stopped carries the frame count.
\* wavfile.write raising ends in the error response of line 158.
Stop79 ==
    /\ pc = "stop_79"
    /\ LET c == heap[lchunks]
           wav_path == Get(line.msg, "wav_path")
       IN IF c = <<>>
          THEN /\ stdout' = Append(stdout, StoppedResp(req_id, wav_path, 0))
               /\ pc' = "read"
               /\ UNCHANGED writes
          ELSE IF Writable(PyStr(wav_path))
          THEN /\ writes' = Append(writes, [path |-> PyStr(wav_path), rate |-> WriteRate,
                                            frames |-> SumFrames(c)])
               /\ stdout' = Append(stdout, StoppedResp(req_id, wav_path, SumFrames(c)))
               /\ pc' = "read"
          ELSE /\ Raise("No such file or directory")
               /\ UNCHANGED writes
    /\ lchunks' = None
    /\ lstream' = None
    /\ heap' = Gc(heap, Refs(chunks, None, cbref))
    /\ UNCHANGED <<session, driver, line, nread, exitcode, pre, touched, tdraised,
                   discarded, delivered, clean>>

------------------------------------------------------------------------------
\* Recorder.cancel and Recorder.shutdown

\* Mutant of CancelFlag: cancel leaves the flag as it is.
CancelFlagKept == recording

\* Line 93: the value cancel gives _recording.
CancelFlag == FALSE

\* Lines 93-97.
Cancel93 ==
    /\ pc = "cancel_93"
    /\ recording' = CancelFlag
    /\ chunks' = NewList(Refs(None, lchunks, cbref))
    /\ heap' = Gc([heap EXCEPT ![chunks'] = <<>>], Refs(chunks', lchunks, cbref))
    /\ lstream' = stream
    /\ stream' = None
    /\ pc' = "cancel_100"
    /\ discarded' = IF msg_type = JStr("cancel") /\ stream # None
                    THEN SumFrames(heap[chunks]) ELSE discarded
    /\ UNCHANGED <<sample_rate, channels, driver, line, lchunks, nread, stdout,
                   exitcode, writes, pre, touched, tdraised, delivered, clean>>

\* Line 100.
Cancel100 ==
    /\ pc = "cancel_100"
    /\ Abort("cancel_101", "cancel_ret")
    /\ UNCHANGED <<session, heap, cbpc, cbblk, cbref, line, lstream, lchunks,
                   nread, exitcode, writes, pre, touched, discarded, delivered,
                   clean>>

\* Line 101.
Cancel101 ==
    /\ pc = "cancel_101"
    /\ Close("cancel_ret")
    /\ UNCHANGED <<session, heap, cbpc, cbblk, cbref, line, lstream, lchunks,
                   nread, exitcode, writes, pre, touched, discarded, delivered,
                   clean>>

\* cancel has returned: line 152 writes canceled; for shutdown (lines
\* 129-131) shutdown_ack is written and main returns 0.
CancelRet ==
    /\ pc = "cancel_ret"
    /\ IF msg_type = JStr("shutdown")
       THEN /\ stdout' = Append(stdout, ShutdownAck)
            /\ Exit(0)
            /\ UNCHANGED <<line, nread, writes, pre, touched, tdraised>>
       ELSE /\ stdout' = Append(stdout, CanceledResp(req_id))
            /\ pc' = "read"
            /\ lstream' = None
            /\ UNCHANGED <<session, heap, driver, line, lchunks, nread, exitcode,
                           ghost>>

------------------------------------------------------------------------------
\* The capture callback (lines 46-50), run by the driver's thread for a
\* stream that is live.  The process is gone once main has returned.

Observed == /\ touched' = TRUE
            /\ clean' = (clean /\ pc = "read")
            /\ UNCHANGED <<writes, pre, tdraised, discarded>>

\* Blocks held by the lists or by a callback that is running.
Held == Cardinality(UNION {{<<i, j>> : j \in 1..Len(heap[i])} : i \in ListIds})
        + Cardinality({s \in StreamIds : cbpc[s] # "idle"})

\* The driver calls callback(indata, frames, time, status) and line 49 tests
\* self._recording: when it is false the call returns and nothing changed.
\* The driver delivers no further block while MaxBlocks blocks are held.
CbCheck(s) ==
    /\ pc # "exited" /\ streams[s] = "active" /\ cbpc[s] = "idle"
    /\ Held < MaxBlocks
    /\ IF recording
       THEN /\ \E f \in BlockFrames :
                 /\ cbblk' = [cbblk EXCEPT ![s] = f]
                 /\ delivered' = delivered + f
            /\ cbpc' = [cbpc EXCEPT ![s] = "load"]
            /\ Observed
            /\ UNCHANGED <<session, heap, streams, cbref, control>>
       ELSE UNCHANGED vars

\* Line 50, first half: self._chunks is loaded.
CbLoad(s) ==
    /\ pc # "exited" /\ cbpc[s] = "load"
    /\ cbref' = [cbref EXCEPT ![s] = chunks]
    /\ cbpc' = [cbpc EXCEPT ![s] = "append"]
    /\ Observed
    /\ UNCHANGED <<session, heap, streams, cbblk, control, delivered>>

\* Line 50, second half: .append(indata.copy()) on the loaded list.
CbAppend(s) ==
    /\ pc # "exited" /\ cbpc[s] = "append"
    /\ cbref' = [cbref EXCEPT ![s] = None]
    /\ heap' = Gc([heap EXCEPT ![cbref[s]] = Append(@, [frames |-> cbblk[s], src |-> s])],
                  Refs(chunks, lchunks, cbref'))
    /\ cbpc' = [cbpc EXCEPT ![s] = "idle"]
    /\ cbblk' = [cbblk EXCEPT ![s] = 0]
    /\ Observed
    /\ UNCHANGED <<session, streams, control, delivered>>

Callback == \E s \in StreamIds : CbCheck(s) \/ CbLoad(s) \/ CbAppend(s)

Next ==
    \/ ReadLine \/ EndOfInput
    \/ Start35 \/ Start52 \/ Start59
    \/ Stop63 \/ Stop69 \/ Stop74 \/ Stop75 \/ Stop79
    \/ Cancel93 \/ Cancel100 \/ Cancel101 \/ CancelRet
    \/ Callback

Spec == Init /\ [][Next]_vars

------------------------------------------------------------------------------
\* Properties.

KnownTypes == {JStr("start"), JStr("stop"), JStr("cancel"), JStr("shutdown")}
IsReq(t) == line.kind = "dict" /\ msg_type = JStr(t)
wav_path == Get(line.msg, "wav_path")

\* The last line read has been handled and the loop waits for the next one.
Handled == nread > 0 /\ pc = "read"

IsPrefix(a, b) == Len(a) <= Len(b) /\ SubSeq(b, 1, Len(a)) = a

\* C1: a line that is a record of type start, stop, cancel or shutdown has
\* exactly one output line (a response) by the time the loop reads again or
\* main returns, and never more; any other line has none.
C1_OneResponsePerRequest ==
    nread > 0 =>
      /\ Len(stdout) <= 1
      /\ pc \in {"read", "exited"} =>
           Len(stdout) = IF line.kind = "dict" /\ msg_type \in KnownTypes THEN 1 ELSE 0
      /\ \A i \in 1..Len(stdout) :
           stdout[i].type \in {JStr("started"), JStr("stopped"), JStr("canceled"),
                               JStr("error"), JStr("shutdown_ack")}

C1_Witness ==
    /\ Handled /\ nread >= 2 /\ IsReq("stop")
    /\ Len(stdout) = 1 /\ stdout[1].type = JStr("stopped")

\* C2: after a successful start, when every block was handed to the callback
\* and appended while the loop waited for input, a stop with a writable
\* wav_path is answered with stopped whose frames is the sum of the frame
\* counts of those blocks.
C2_StopReportsDeliveredFrames ==
    (Handled /\ IsReq("stop") /\ Truthy(wav_path) /\ Writable(PyStr(wav_path))
       /\ pre.stream # None /\ clean)
    => /\ Len(stdout) = 1
       /\ stdout[1].type = JStr("stopped")
       /\ stdout[1].frames = JNum(delivered)

C2_Witness ==
    /\ Handled /\ IsReq("stop") /\ Truthy(wav_path) /\ Writable(PyStr(wav_path))
    /\ pre.stream # None /\ clean
    /\ Len(pre.buf) = 2 /\ delivered = 3

\* C3: a start read while _recording is set is answered with an error and
\* leaves the flag, the stream handle, the sample rate, the channel count and
\* the list object as they were; the buffer keeps every block it had (it is
\* equal to what it was unless the callback has appended since).
C3_StartWhileRecordingRejected ==
    (Handled /\ IsReq("start") /\ pre.recording)
    => /\ Len(stdout) = 1
       /\ stdout[1].type = JStr("error")
       /\ recording /\ stream = pre.stream
       /\ sample_rate = pre.sample_rate /\ channels = pre.channels
       /\ chunks = pre.chunks
       /\ IsPrefix(pre.buf, heap[chunks])
       /\ ~touched => heap[chunks] = pre.buf

C3_Witness ==
    /\ Handled /\ IsReq("start") /\ pre.recording /\ pre.stream # None
    /\ pre.buf # <<>> /\ stdout[1].type = JStr("error")

\* C4: a stop with a non-empty wav_path, or a cancel, read while _recording is
\* clear is answered with stopped and 0 frames, or with canceled, writes no
\* file and leaves the session idle.
C4_IdleStopCancelSucceed ==
    (Handled /\ ~pre.recording /\ line.kind = "dict")
    => /\ (msg_type = JStr("stop") /\ Truthy(wav_path)) =>
            /\ stdout = <<[type |-> JStr("stopped"), id |-> req_id,
                           wav_path |-> wav_path, frames |-> JNum(0)]>>
            /\ writes = <<>> /\ ~recording /\ stream = None
       /\ msg_type = JStr("cancel") =>
            /\ stdout = <<[type |-> JStr("canceled"), id |-> req_id]>>
            /\ writes = <<>> /\ ~recording /\ stream = None

C4_Witness ==
    /\ Handled /\ nread = 3 /\ ~pre.recording /\ IsReq("stop") /\ Truthy(wav_path)
    /\ streams[1] \in {"aborted", "closed"}

\* C5: a cancel that ends a started session writes no file, and a stop that
\* follows it with no start line in between is answered with 0 frames and
\* writes no file.
C5_CancelDiscardsBuffer ==
    /\ (Handled /\ IsReq("cancel") /\ pre.stream # None)
       => /\ writes = <<>> /\ ~recording
          /\ stdout = <<[type |-> JStr("canceled"), id |-> req_id]>>
    /\ (Handled /\ IsReq("stop") /\ Truthy(wav_path) /\ discarded >= 0)
       => /\ writes = <<>>
          /\ stdout = <<[type |-> JStr("stopped"), id |-> req_id,
                         wav_path |-> wav_path, frames |-> JNum(0)]>>

C5_Witness ==
    Handled /\ IsReq("stop") /\ Truthy(wav_path) /\ discarded > 0

\* C6: when abort() or close() raised during a stop or a cancel, the request
\* is still answered with stopped (for a writable wav_path) or canceled, the
\* stopped response counts every block the buffer held, the file is written
\* when that count is positive, and the session is idle.
C6_TeardownErrorsSwallowed ==
    (Handled /\ tdraised)
    => /\ ~recording /\ stream = None
       /\ Len(stdout) = 1
       /\ IsReq("cancel") => stdout[1].type = JStr("canceled")
       /\ (IsReq("stop") /\ Writable(PyStr(wav_path))) =>
            /\ stdout[1].type = JStr("stopped")
            /\ stdout[1].frames.n >= SumFrames(pre.buf)
            /\ ~touched => stdout[1].frames.n = SumFrames(pre.buf)
            /\ stdout[1].frames.n > 0 =>
                 writes = <<[path |-> PyStr(wav_path), rate |-> pre.sample_rate,
                             frames |-> stdout[1].frames.n]>>

C6_Witness ==
    /\ Handled /\ tdraised /\ IsReq("stop")
    /\ stdout[1].type = JStr("stopped") /\ stdout[1].frames.n > 0

\* C7: a request answered with an error response leaves the flag, the stream
\* handle and the buffer as they were when the request was read.
C7_ErrorLeavesSessionUnchanged ==
    (Handled /\ Len(stdout) = 1 /\ stdout[1].type = JStr("error")
       /\ (IsReq("start") \/ (IsReq("stop") /\ ~Truthy(wav_path))))
    => /\ recording = pre.recording
       /\ stream = pre.stream
       /\ ~touched => heap[chunks] = pre.buf

\* C8: the response to a start, stop or cancel that carries an id carries the
\* same id.
C8_ResponseEchoesId ==
    (Handled /\ line.kind = "dict" /\ "id" \in DOMAIN line.msg
       /\ msg_type \in {JStr("start"), JStr("stop"), JStr("cancel")})
    => /\ Len(stdout) = 1
       /\ "id" \in DOMAIN stdout[1]
       /\ stdout[1].id = line.msg["id"]

C8_Witness ==
    /\ Handled /\ IsReq("stop") /\ "id" \in DOMAIN line.msg
    /\ line.msg["id"] = JStr("9")
    /\ stdout[1].type = JStr("stopped") /\ stdout[1].id = JStr("9")

C10_ShutdownAckCarriesId ==
    (pc = "exited" /\ IsReq("shutdown"))
    => /\ exitcode = 0
       /\ Len(stdout) = 1
       /\ stdout[1].type = JStr("shutdown_ack")
       /\ "id" \in DOMAIN line.msg =>
            ("id" \in DOMAIN stdout[1] /\ stdout[1].id = line.msg["id"])

\* C11: reading a blank line or a line that is not JSON writes nothing to
\* stdout, leaves the loop waiting for the next line and changes no Recorder
\* field, list, stream or callback, so the line after it is handled from the
\* very state it would have been handled from; and a request read right
\* after such a line is dispatched as its message alone says.
Malformed == {"blank", "nonjson"}

C12_LoopEndsOnlyOnShutdownOrEof ==
    [][(pc # "exited" /\ pc' = "exited")
       => /\ exitcode' = 0
          /\ \/ pc = "read" /\ nread' = nread
             \/ pc = "cancel_ret" /\ IsReq("shutdown")]_vars

\* C13: the append of line 50 to a list of the session (the one _chunks
\* names or the one stop has taken) happens only while _recording is set.
C13_NoAppendAfterFlagFlip ==
    [][\A s \in StreamIds :
         (cbpc[s] = "append" /\ cbpc'[s] = "idle" /\ pc' # "exited"
            /\ cbref[s] \in {chunks, lchunks})
         => recording]_vars

\* C14: while the loop waits for the next line, _recording is set exactly
\* when _stream is set, and then _sample_rate and _channels are set too.
C14_RecordingIffStream ==
    pc = "read" =>
      /\ recording <=> stream # None
      /\ recording => (sample_rate # None /\ channels # None)

\* C15: at most one InputStream that was opened and is neither aborted nor
\* closed exists.
Live == {s \in StreamIds : streams[s] \in {"open", "active"}}

C15_AtMostOneLiveStream == Cardinality(Live) <= 1

\* C16: when stop takes the list of blocks (lines 69-70), the flag is already
\* clear and the abort and close of the session's stream have already been
\* requested: the stream is halted, or its teardown has raised.
C16_StopTakesBufferAfterTeardown ==
    [][(lchunks = None /\ lchunks' # None)
       => /\ ~recording
          /\ \/ lstream = None
             \/ streams[lstream] \in {"aborted", "closed"}
             \/ tdraised]_vars

\* C17: wavfile.write is called only while a stop request is handled, at most
\* once, with the request's wav_path, the sample rate of the session and a
\* positive frame count; a stop read while idle, a stop answered with 0
\* frames, a cancel and a shutdown write no file, and a stop answered with a
\* positive frame count has written the file with that many frames.
C17_FileWrittenOnlyByDrainingStop ==
    /\ writes # <<>> =>
         /\ IsReq("stop") /\ pre.recording
         /\ writes = <<[path |-> PyStr(wav_path), rate |-> pre.sample_rate,
                        frames |-> writes[1].frames]>>
         /\ writes[1].frames > 0
    /\ (Handled /\ IsReq("stop") /\ Len(stdout) = 1
          /\ stdout[1].type = JStr("stopped")) =>
         IF stdout[1].frames.n > 0
         THEN writes = <<[path |-> PyStr(wav_path), rate |-> pre.sample_rate,
                          frames |-> stdout[1].frames.n]>>
         ELSE writes = <<>>

C17_Witness ==
    /\ Handled /\ IsReq("stop")
    /\ writes = <<[path |-> "x.wav", rate |-> 8000, frames |-> 3]>>
    /\ stdout[1].type = JStr("stopped") /\ stdout[1].frames = JNum(3)

\* C18: every block in the buffer of a started session, and every block stop
\* has taken from it, was appended by the callback of that session's stream.
C18_BlocksComeFromSessionStream ==
    /\ stream # None =>
         \A i \in 1..Len(heap[chunks]) : heap[chunks][i].src = stream
    /\ (lchunks # None /\ lstream # None) =>
         \A i \in 1..Len(heap[lchunks]) : heap[lchunks][i].src = lstream

\* C19: while the loop waits for the next line and _recording is clear, the
\* list _chunks names is empty.
C19_IdleBufferEmpty ==
    (pc = "read" /\ ~recording) => heap[chunks] = <<>>

\* C20: once a stop with a non-empty wav_path has been answered, with
\* stopped or with error, _recording is clear, _stream is None and the list
\* stop drained is no longer referenced (the buffer is a fresh list, empty
\* unless a callback ran meanwhile); a stop read right after a stop that was
\* answered with error finds the flag clear, and a stop read with the flag
\* clear is answered with stopped and 0 frames.
StopAnswered == Handled /\ IsReq("stop") /\ Truthy(wav_path)

C20_StopLeavesIdleEvenOnError ==
    /\ [](StopAnswered =>
            /\ Len(stdout) = 1
            /\ stdout[1].type \in {JStr("stopped"), JStr("error")}
            /\ ~recording /\ stream = None /\ lchunks = None
            /\ (pre.recording /\ ~touched) => heap[chunks] = <<>>
            /\ ~pre.recording =>
                 (stdout[1].type = JStr("stopped") /\ stdout[1].frames = JNum(0)))
    /\ [][(StopAnswered /\ stdout[1].type = JStr("error")
             /\ nread' = nread + 1 /\ line'.kind = "dict"
             /\ Get(line'.msg, "type") = JStr("stop")
             /\ Truthy(Get(line'.msg, "wav_path")))
          => (pc' = "stop_63" /\ ~pre'.recording /\ pre'.stream = None)]_vars

C20_Witness ==
    /\ StopAnswered /\ stdout[1].type = JStr("error")
    /\ stdout[1].error = JStr("No such file or directory")
    /\ pre.recording /\ pre.stream # None /\ Len(pre.buf) = 2 /\ ~touched
    /\ writes = <<>>

====
